---- MODULE Spec2Model ----
(***************************************************************************)
(* TradingView -> Gate.io webhook (src/app/main.py).                       *)
(*                                                                         *)
(* The model follows one webhook request per request id through the       *)
(* handler `webhook`, the worker thread running `place_order_with_retry`, *)
(* and the background tasks log_order, log_order_to_gsheet and            *)
(* notify_remote.  The exchange, the CSV file, the spreadsheet and the    *)
(* notification endpoint are collaborators: each call to one of them      *)
(* either returns or raises, chosen nondeterministically.                 *)
(***************************************************************************)
EXTENDS Integers, Sequences, FiniteSets, TLC

VARIABLES
    MAX_RETRIES,        \* main.py:20, read once from the environment
    REMOTE_NOTIFY_URL,  \* main.py:18, TRUE when a URL is configured
    pc,                 \* per request: where the handler / worker thread is
    payload,            \* per request: the TVPayload received
    side,               \* per request: local `side` of webhook
    symbol,             \* per request: local `symbol` of webhook
    attempt,            \* per request: loop variable of place_order_with_retry
    last_exception,     \* per request: local `last_exception`
    order,              \* per request: local `order` of place_order_with_retry
    outcome,            \* per request: what the worker thread returned or raised
    responses,          \* per request: the HTTP responses sent
    tasks,              \* per request: background tasks still to run
    exists,             \* per request: local `exists` of log_order
    trace,              \* per request: exchange calls and sleeps, in order
    sinkRan,            \* per request: sinks that were started
    sinkFailed,         \* per request: sinks that raised or logged a failure
    exOrders,           \* orders the exchange holds
    csvExists,          \* whether CSV_PATH exists
    csvRows,            \* rows of the CSV file
    sheetRows           \* rows of the spreadsheet

vars == <<MAX_RETRIES, REMOTE_NOTIFY_URL, pc, payload, side, symbol, attempt,
          last_exception, order, outcome, responses, tasks, exists, trace,
          sinkRan, sinkFailed, exOrders, csvExists, csvRows, sheetRows>>

----------------------------------------------------------------------------
(* Bounds of the model *)

\* largest configured MAX_RETRIES explored
MaxRetriesBound == 3

\* request ids; Spec sends the first only
Reqs == {1, 2}

\* configured values of MAX_RETRIES, values below 1 included
RetryConfigs == (-1)..MaxRetriesBound

----------------------------------------------------------------------------
(* Strings of the payload as sequences of characters *)

Whitespace == {" ", "\t"}

\* str.lower() on the characters the inputs use
LowerChar(c) ==
    CASE c = "B" -> "b"
      [] c = "U" -> "u"
      [] c = "Y" -> "y"
      [] c = "S" -> "s"
      [] c = "E" -> "e"
      [] c = "L" -> "l"
      [] c = "H" -> "h"
      [] c = "O" -> "o"
      [] c = "D" -> "d"
      [] OTHER -> c

Lower(s) == [i \in 1..Len(s) |-> LowerChar(s[i])]

RECURSIVE LStrip(_)
LStrip(s) ==
    IF s # <<>> /\ Head(s) \in Whitespace THEN LStrip(Tail(s)) ELSE s

RECURSIVE RStrip(_)
RStrip(s) ==
    IF s # <<>> /\ s[Len(s)] \in Whitespace
    THEN RStrip(SubSeq(s, 1, Len(s) - 1))
    ELSE s

\* a mutant of Strip: only the left side is trimmed
StripLeftOnly(s) == LStrip(s)

\* str.strip()
Strip(s) == RStrip(LStrip(s))

BUY == <<"b", "u", "y">>
SELL == <<"s", "e", "l", "l">>

\* payload.action values received
Actions == {
    <<"B", "U", "Y">>,
    <<" ", "b", "u", "y", " ">>,
    <<"S", "e", "l", "l">>,
    <<"h", "o", "l", "d">>,
    <<"b", " ", "u", "y">>,
    <<"b", "u", "y", "s">>,
    <<>> }

\* largest length of the generated payload.symbol values
MaxSymLen == 3

SymChars == {"b", "T", "_", "/"}

BTC_USDT_raw == <<"b", "t", "c", "_", "u", "s", "d", "t">>

\* payload.symbol values beside the generated ones
ExampleSymbols == {
    BTC_USDT_raw,
    <<"B", "T", "C", "/", "U", "S", "D", "T">>,
    <<"b", "t", "c", "/", "u", "_", "d", "t">>,
    <<"B", "t", "c", "_", "U", "s", "_", "t">> }

\* every string over SymChars up to MaxSymLen characters, and the examples
Symbols == UNION {[1..k -> SymChars] : k \in 0..MaxSymLen} \cup ExampleSymbols

\* payload.symbol of the requests that go on to the exchange
SymbolsSent == {BTC_USDT_raw}

\* str.upper() on the characters the symbols use
ToUpper(c) ==
    CASE c = "b" -> "B"
      [] c = "t" -> "T"
      [] c = "c" -> "C"
      [] c = "u" -> "U"
      [] c = "s" -> "S"
      [] c = "d" -> "D"
      [] OTHER -> c

\* a mutant of normalize_symbol: the test for '/' is missing
normalize_symbol_always(s) ==
    [i \in 1..Len(s) |-> ToUpper(IF s[i] = "_" THEN "/" ELSE s[i])]

\* normalize_symbol: unchanged with a '/', else '_' -> '/' and upper-cased
normalize_symbol(s) ==
    IF \E i \in 1..Len(s) : s[i] = "/"
    THEN s
    ELSE [i \in 1..Len(s) |-> ToUpper(IF s[i] = "_" THEN "/" ELSE s[i])]

OrderTypes == {"market", "limit", "stop"}

PriceNone == "None"
Prices == {PriceNone, "100.0"}

Statuses == {"open", "partial", "closed", "canceled"}

----------------------------------------------------------------------------
(* Values *)

NoOrder == [id |-> 0, status |-> "none", src |-> "none", att |-> 0]

NoException == [kind |-> "None", att |-> 0, msg |-> "None"]

NoOutcome == [kind |-> "none", order |-> NoOrder, exc |-> NoException]

NoPayload == [symbol |-> <<>>, action |-> <<>>, order_type |-> "market", price |-> PriceNone]

\* raise None: "exceptions must derive from BaseException"
TypeError == [kind |-> "TypeError", att |-> 0, msg |-> "exceptions must derive from BaseException"]

Event(o, a, k, p, ord) == [op |-> o, att |-> a, ok |-> k, price |-> p, order |-> ord]

CreateOps == {"create_market_buy_order", "create_market_sell_order",
              "create_limit_buy_order", "create_limit_sell_order"}

----------------------------------------------------------------------------
Init ==
    /\ MAX_RETRIES \in RetryConfigs
    /\ REMOTE_NOTIFY_URL \in BOOLEAN
    /\ pc = [r \in Reqs |-> "idle"]
    /\ payload = [r \in Reqs |-> NoPayload]
    /\ side = [r \in Reqs |-> <<>>]
    /\ symbol = [r \in Reqs |-> <<>>]
    /\ attempt = [r \in Reqs |-> 0]
    /\ last_exception = [r \in Reqs |-> NoException]
    /\ order = [r \in Reqs |-> NoOrder]
    /\ outcome = [r \in Reqs |-> NoOutcome]
    /\ responses = [r \in Reqs |-> <<>>]
    /\ tasks = [r \in Reqs |-> <<>>]
    /\ exists = [r \in Reqs |-> "unread"]
    /\ trace = [r \in Reqs |-> <<>>]
    /\ sinkRan = [r \in Reqs |-> {}]
    /\ sinkFailed = [r \in Reqs |-> {}]
    /\ exOrders = {}
    /\ csvExists = FALSE
    /\ csvRows = <<>>
    /\ sheetRows = <<>>

----------------------------------------------------------------------------
(* place_order_with_retry, run on a worker thread *)

ExchangeError(a, o) == [kind |-> "ExchangeError", att |-> a, msg |-> o]

ValueError(a, m) == [kind |-> "ValueError", att |-> a, msg |-> m]

Log(r, e) == trace' = [trace EXCEPT ![r] = Append(@, e)]

\* a mutant of Except: the delay before the next attempt is skipped
ExceptNoSleep(r, e) ==
    /\ last_exception' = [last_exception EXCEPT ![r] = e]
    /\ pc' = [pc EXCEPT ![r] = "for"]

\* a mutant of Except: only the first exception is recorded
ExceptKeepFirst(r, e) ==
    /\ last_exception' = [last_exception EXCEPT ![r] =
                             IF @ = NoException THEN e ELSE @]
    /\ pc' = [pc EXCEPT ![r] = IF attempt[r] < MAX_RETRIES THEN "sleep" ELSE "for"]

\* a mutant of Except: the delay is taken after the last attempt too
ExceptAlwaysSleep(r, e) ==
    /\ last_exception' = [last_exception EXCEPT ![r] = e]
    /\ pc' = [pc EXCEPT ![r] = "sleep"]

\* except Exception as e: record it, sleep unless this was the last attempt
Except(r, e) ==
    /\ last_exception' = [last_exception EXCEPT ![r] = e]
    /\ pc' = [pc EXCEPT ![r] = IF attempt[r] < MAX_RETRIES THEN "sleep" ELSE "for"]

\* return order: the worker thread ends with a result
Return(r, o) ==
    /\ outcome' = [outcome EXCEPT ![r] = [kind |-> "returned", order |-> o, exc |-> NoException]]
    /\ pc' = [pc EXCEPT ![r] = "await"]

\* a mutant of NeedsFetch: a partial fill is not followed up
NeedsFetchOpenOnly(o) == o.status = "open"

\* order.get('status') in ('open', 'partial')
NeedsFetch(o) == o.status \in {"open", "partial"}

\* a mutant of CreateOp: the side is not looked at
CreateOpByTypeOnly(t, sd) ==
    IF t = "market" THEN "create_market_buy_order" ELSE "create_limit_buy_order"

\* the exchange operation chosen by (order_type, side)
CreateOp(t, sd) ==
    IF t = "market"
    THEN IF sd = BUY THEN "create_market_buy_order" ELSE "create_market_sell_order"
    ELSE IF sd = BUY THEN "create_limit_buy_order" ELSE "create_limit_sell_order"

\* the price argument passed to the exchange operation
CreatePrice(t, p) == IF t = "market" THEN PriceNone ELSE p

RECURSIVE SumAttempts(_)
SumAttempts(S) ==
    IF S = {} THEN 0
    ELSE LET q == CHOOSE x \in S : TRUE IN attempt[q] + SumAttempts(S \ {q})

\* a mutant of ForAttempt: the attempt counter is shared by all submissions
ForAttemptSharedCounter(r) ==
    /\ pc[r] = "for"
    /\ IF SumAttempts(Reqs) < MAX_RETRIES
       THEN /\ attempt' = [attempt EXCEPT ![r] = @ + 1]
            /\ pc' = [pc EXCEPT ![r] = "load_markets"]
            /\ UNCHANGED outcome
       ELSE /\ outcome' = [outcome EXCEPT ![r] =
                  [kind |-> "raised", order |-> NoOrder,
                   exc |-> IF last_exception[r] = NoException
                           THEN TypeError ELSE last_exception[r]]]
            /\ pc' = [pc EXCEPT ![r] = "await"]
            /\ UNCHANGED attempt
    /\ UNCHANGED <<MAX_RETRIES, REMOTE_NOTIFY_URL, payload, side, symbol, last_exception,
                   order, responses, tasks, exists, trace, sinkRan, sinkFailed,
                   exOrders, csvExists, csvRows, sheetRows>>

\* a mutant of ForAttempt: the loop runs one attempt more than MAX_RETRIES
ForAttemptOneMore(r) ==
    /\ pc[r] = "for"
    /\ IF attempt[r] <= MAX_RETRIES
       THEN /\ attempt' = [attempt EXCEPT ![r] = @ + 1]
            /\ pc' = [pc EXCEPT ![r] = "load_markets"]
            /\ UNCHANGED outcome
       ELSE /\ outcome' = [outcome EXCEPT ![r] =
                  [kind |-> "raised", order |-> NoOrder,
                   exc |-> IF last_exception[r] = NoException
                           THEN TypeError ELSE last_exception[r]]]
            /\ pc' = [pc EXCEPT ![r] = "await"]
            /\ UNCHANGED attempt
    /\ UNCHANGED <<MAX_RETRIES, REMOTE_NOTIFY_URL, payload, side, symbol, last_exception,
                   order, responses, tasks, exists, trace, sinkRan, sinkFailed,
                   exOrders, csvExists, csvRows, sheetRows>>

\* for attempt in range(1, MAX_RETRIES + 1), and raise last_exception after it
ForAttempt(r) ==
    /\ pc[r] = "for"
    /\ IF attempt[r] < MAX_RETRIES
       THEN /\ attempt' = [attempt EXCEPT ![r] = @ + 1]
            /\ pc' = [pc EXCEPT ![r] = "load_markets"]
            /\ UNCHANGED outcome
       ELSE /\ outcome' = [outcome EXCEPT ![r] =
                  [kind |-> "raised", order |-> NoOrder,
                   exc |-> IF last_exception[r] = NoException
                           THEN TypeError ELSE last_exception[r]]]
            /\ pc' = [pc EXCEPT ![r] = "await"]
            /\ UNCHANGED attempt
    /\ UNCHANGED <<MAX_RETRIES, REMOTE_NOTIFY_URL, payload, side, symbol, last_exception,
                   order, responses, tasks, exists, trace, sinkRan, sinkFailed,
                   exOrders, csvExists, csvRows, sheetRows>>

\* the branch on order_type and price taken once load_markets has returned
Dispatch(r) ==
    IF payload[r].order_type = "market"
    THEN /\ pc' = [pc EXCEPT ![r] = "create_order"]
         /\ UNCHANGED last_exception
    ELSE IF payload[r].order_type = "limit"
    THEN IF payload[r].price = PriceNone
         THEN Except(r, ValueError(attempt[r], "Missing price for limit order"))
         ELSE /\ pc' = [pc EXCEPT ![r] = "create_order"]
              /\ UNCHANGED last_exception
    ELSE Except(r, ValueError(attempt[r], "Unsupported order type"))

\* a mutant of LoadMarkets: a failed refresh does not end the attempt
LoadMarketsFailureIgnored(r) ==
    /\ pc[r] = "load_markets"
    /\ \E ok \in BOOLEAN :
          /\ Log(r, Event("load_markets", attempt[r], ok, PriceNone, NoOrder))
          /\ Dispatch(r)
    /\ UNCHANGED <<MAX_RETRIES, REMOTE_NOTIFY_URL, payload, side, symbol, attempt, order,
                   outcome, responses, tasks, exists, sinkRan, sinkFailed,
                   exOrders, csvExists, csvRows, sheetRows>>

\* exchange.load_markets(), then the dispatch up to the order call
LoadMarkets(r) ==
    /\ pc[r] = "load_markets"
    /\ \E ok \in BOOLEAN :
          /\ Log(r, Event("load_markets", attempt[r], ok, PriceNone, NoOrder))
          /\ IF ok
             THEN Dispatch(r)
             ELSE Except(r, ExchangeError(attempt[r], "load_markets"))
    /\ UNCHANGED <<MAX_RETRIES, REMOTE_NOTIFY_URL, payload, side, symbol, attempt, order,
                   outcome, responses, tasks, exists, sinkRan, sinkFailed,
                   exOrders, csvExists, csvRows, sheetRows>>

\* exchange.create_{market,limit}_{buy,sell}_order(...), then the status check
CreateOrder(r) ==
    /\ pc[r] = "create_order"
    /\ LET op == CreateOp(payload[r].order_type, side[r])
           pr == CreatePrice(payload[r].order_type, payload[r].price)
       IN \/ /\ Log(r, Event(op, attempt[r], FALSE, pr, NoOrder))
             /\ Except(r, ExchangeError(attempt[r], op))
             /\ UNCHANGED <<order, outcome, exOrders>>
          \/ \E st \in Statuses :
                LET o == [id |-> Cardinality(exOrders) + 1, status |-> st,
                          src |-> "create", att |-> attempt[r]]
                IN /\ Log(r, Event(op, attempt[r], TRUE, pr, o))
                   /\ exOrders' = exOrders \cup {[id |-> o.id, req |-> r, att |-> attempt[r]]}
                   /\ order' = [order EXCEPT ![r] = o]
                   /\ IF NeedsFetch(o)
                      THEN /\ pc' = [pc EXCEPT ![r] = "fetch_order"]
                           /\ UNCHANGED outcome
                      ELSE Return(r, o)
                   /\ UNCHANGED last_exception
    /\ UNCHANGED <<MAX_RETRIES, REMOTE_NOTIFY_URL, payload, side, symbol, attempt,
                   responses, tasks, exists, sinkRan, sinkFailed,
                   csvExists, csvRows, sheetRows>>

\* order = exchange.fetch_order(order['id'], symbol); return order
FetchOrder(r) ==
    /\ pc[r] = "fetch_order"
    /\ \/ /\ Log(r, Event("fetch_order", attempt[r], FALSE, PriceNone, NoOrder))
          /\ Except(r, ExchangeError(attempt[r], "fetch_order"))
          /\ UNCHANGED <<order, outcome>>
       \/ \E st \in Statuses :
             LET o == [id |-> order[r].id, status |-> st,
                       src |-> "fetch", att |-> attempt[r]]
             IN /\ Log(r, Event("fetch_order", attempt[r], TRUE, PriceNone, o))
                /\ order' = [order EXCEPT ![r] = o]
                /\ Return(r, o)
                /\ UNCHANGED last_exception
    /\ UNCHANGED <<MAX_RETRIES, REMOTE_NOTIFY_URL, payload, side, symbol, attempt,
                   responses, tasks, exists, sinkRan, sinkFailed, exOrders,
                   csvExists, csvRows, sheetRows>>

\* time.sleep(RETRY_DELAY)
Sleep(r) ==
    /\ pc[r] = "sleep"
    /\ Log(r, Event("sleep", attempt[r], TRUE, PriceNone, NoOrder))
    /\ pc' = [pc EXCEPT ![r] = "for"]
    /\ UNCHANGED <<MAX_RETRIES, REMOTE_NOTIFY_URL, payload, side, symbol, attempt,
                   last_exception, order, outcome, responses, tasks, exists,
                   sinkRan, sinkFailed, exOrders, csvExists, csvRows, sheetRows>>

----------------------------------------------------------------------------
(* webhook *)

Response(st, o, e) == [status |-> st, order |-> o, detail |-> e]

InvalidAction == [kind |-> "HTTPException", att |-> 0, msg |-> "action must be BUY or SELL"]

Payloads == [symbol : SymbolsSent, action : Actions, order_type : OrderTypes, price : Prices]

BackgroundTasks == <<"log_order", "log_order_to_gsheet", "notify_remote">>

\* POST /webhook up to the await of asyncio.to_thread
Webhook(r, p) ==
    /\ pc[r] = "idle"
    /\ payload' = [payload EXCEPT ![r] = p]
    /\ symbol' = [symbol EXCEPT ![r] = normalize_symbol(p.symbol)]
    /\ LET sd == Lower(Strip(p.action))
       IN /\ side' = [side EXCEPT ![r] = sd]
          /\ IF sd \notin {BUY, SELL}
             THEN /\ responses' = [responses EXCEPT ![r] =
                                      Append(@, Response(400, NoOrder, InvalidAction))]
                  /\ pc' = [pc EXCEPT ![r] = "done"]
             ELSE /\ pc' = [pc EXCEPT ![r] = "for"]
                  /\ UNCHANGED responses
    /\ UNCHANGED <<MAX_RETRIES, REMOTE_NOTIFY_URL, attempt, last_exception, order,
                   outcome, tasks, exists, trace, sinkRan, sinkFailed, exOrders,
                   csvExists, csvRows, sheetRows>>

\* a mutant of WebhookResume: the tasks are added before the outcome is looked at
WebhookResumeTasksFirst(r) ==
    /\ pc[r] = "await"
    /\ tasks' = [tasks EXCEPT ![r] = BackgroundTasks]
    /\ pc' = [pc EXCEPT ![r] = "background"]
    /\ responses' = [responses EXCEPT ![r] =
          Append(@, IF outcome[r].kind = "raised"
                    THEN Response(500, NoOrder, outcome[r].exc)
                    ELSE Response(200, outcome[r].order, NoException))]
    /\ UNCHANGED <<MAX_RETRIES, REMOTE_NOTIFY_URL, payload, side, symbol, attempt,
                   last_exception, order, outcome, exists, trace, sinkRan,
                   sinkFailed, exOrders, csvExists, csvRows, sheetRows>>

\* webhook once the worker thread has ended: 500, or the tasks and 200
WebhookResume(r) ==
    /\ pc[r] = "await"
    /\ IF outcome[r].kind = "raised"
       THEN /\ responses' = [responses EXCEPT ![r] =
                                Append(@, Response(500, NoOrder, outcome[r].exc))]
            /\ pc' = [pc EXCEPT ![r] = "done"]
            /\ UNCHANGED tasks
       ELSE /\ tasks' = [tasks EXCEPT ![r] = BackgroundTasks]
            /\ responses' = [responses EXCEPT ![r] =
                                Append(@, Response(200, outcome[r].order, NoException))]
            /\ pc' = [pc EXCEPT ![r] = "background"]
    /\ UNCHANGED <<MAX_RETRIES, REMOTE_NOTIFY_URL, payload, side, symbol, attempt,
                   last_exception, order, outcome, exists, trace, sinkRan,
                   sinkFailed, exOrders, csvExists, csvRows, sheetRows>>

----------------------------------------------------------------------------
(* background tasks, run in the order added once the response is sent *)

\* the tasks run one after another; a task that raises ends the run
TaskEnd(r, raised) ==
    LET rest == IF raised THEN <<>> ELSE Tail(tasks[r])
    IN /\ tasks' = [tasks EXCEPT ![r] = rest]
       /\ pc' = [pc EXCEPT ![r] = IF rest = <<>> THEN "done" ELSE "background"]

Running(r, t) == pc[r] = "background" /\ tasks[r] # <<>> /\ Head(tasks[r]) = t

HeaderRow == [kind |-> "header", id |-> 0]

RecordRow(o) == [kind |-> "record", id |-> o.id]

\* log_order: exists = os.path.exists(CSV_PATH)
LogOrderExists(r) ==
    /\ Running(r, "log_order")
    /\ exists[r] = "unread"
    /\ exists' = [exists EXCEPT ![r] = IF csvExists THEN "yes" ELSE "no"]
    /\ sinkRan' = [sinkRan EXCEPT ![r] = @ \cup {"log_order"}]
    /\ UNCHANGED <<MAX_RETRIES, REMOTE_NOTIFY_URL, pc, payload, side, symbol, attempt,
                   last_exception, order, outcome, responses, tasks, trace,
                   sinkFailed, exOrders, csvExists, csvRows, sheetRows>>

\* log_order: open(CSV_PATH, 'a'), the header if not exists, the record
LogOrderWrite(r) ==
    /\ Running(r, "log_order")
    /\ exists[r] # "unread"
    /\ \/ /\ sinkFailed' = [sinkFailed EXCEPT ![r] = @ \cup {"log_order"}]
          /\ TaskEnd(r, TRUE)
          /\ UNCHANGED <<csvExists, csvRows>>
       \/ /\ csvExists' = TRUE
          /\ csvRows' = csvRows \o (IF exists[r] = "no" THEN <<HeaderRow>> ELSE <<>>)
                                \o <<RecordRow(outcome[r].order)>>
          /\ TaskEnd(r, FALSE)
          /\ UNCHANGED sinkFailed
    /\ UNCHANGED <<MAX_RETRIES, REMOTE_NOTIFY_URL, payload, side, symbol, attempt,
                   last_exception, order, outcome, responses, exists, trace,
                   sinkRan, exOrders, sheetRows>>

\* log_order_to_gsheet: sheet.append_row(row)
LogOrderToGsheet(r) ==
    /\ Running(r, "log_order_to_gsheet")
    /\ sinkRan' = [sinkRan EXCEPT ![r] = @ \cup {"log_order_to_gsheet"}]
    /\ \/ /\ sinkFailed' = [sinkFailed EXCEPT ![r] = @ \cup {"log_order_to_gsheet"}]
          /\ TaskEnd(r, TRUE)
          /\ UNCHANGED sheetRows
       \/ /\ sheetRows' = Append(sheetRows, RecordRow(outcome[r].order))
          /\ TaskEnd(r, FALSE)
          /\ UNCHANGED sinkFailed
    /\ UNCHANGED <<MAX_RETRIES, REMOTE_NOTIFY_URL, payload, side, symbol, attempt,
                   last_exception, order, outcome, responses, exists, trace,
                   exOrders, csvExists, csvRows>>

\* notify_remote: nothing without a URL; a failed POST is printed, not raised
NotifyRemote(r) ==
    /\ Running(r, "notify_remote")
    /\ sinkRan' = [sinkRan EXCEPT ![r] = @ \cup {"notify_remote"}]
    /\ IF ~REMOTE_NOTIFY_URL
       THEN UNCHANGED sinkFailed
       ELSE \E ok \in BOOLEAN :
               sinkFailed' = [sinkFailed EXCEPT ![r] =
                                 IF ok THEN @ ELSE @ \cup {"notify_remote"}]
    /\ TaskEnd(r, FALSE)
    /\ UNCHANGED <<MAX_RETRIES, REMOTE_NOTIFY_URL, payload, side, symbol, attempt,
                   last_exception, order, outcome, responses, exists, trace,
                   exOrders, csvExists, csvRows, sheetRows>>

----------------------------------------------------------------------------
\* one request is sent
Next ==
    \E r \in {1} :
        \/ \E p \in Payloads : Webhook(r, p)
        \/ ForAttempt(r)
        \/ LoadMarkets(r)
        \/ CreateOrder(r)
        \/ FetchOrder(r)
        \/ Sleep(r)
        \/ WebhookResume(r)
        \/ LogOrderExists(r)
        \/ LogOrderWrite(r)
        \/ LogOrderToGsheet(r)
        \/ NotifyRemote(r)

Spec == Init /\ [][Next]_vars

\* every step but the arrival of a request: exchange calls return or raise,
\* the sleep ends, the handler is resumed, the background tasks are run
Progress ==
    \E r \in {1} :
        \/ ForAttempt(r)
        \/ LoadMarkets(r)
        \/ CreateOrder(r)
        \/ FetchOrder(r)
        \/ Sleep(r)
        \/ WebhookResume(r)
        \/ LogOrderExists(r)
        \/ LogOrderWrite(r)
        \/ LogOrderToGsheet(r)
        \/ NotifyRemote(r)

SpecFair == Init /\ [][Next]_vars /\ WF_vars(Progress)

\* requests that only exercise the symbol normalisation of webhook
NormPayloads == [symbol : Symbols, action : {<<"h", "o", "l", "d">>, <<"B", "U", "Y">>},
                 order_type : {"market"}, price : {PriceNone}]

NextNorm == \E p \in NormPayloads : Webhook(1, p)

SpecNorm == Init /\ [][NextNorm]_vars

----------------------------------------------------------------------------
(* Reading the record of a request *)

Sent == {r \in Reqs : pc[r] # "idle"}

ThreadEnded(r) == pc[r] \in {"await", "background", "done"} /\ outcome[r] # NoOutcome

Responded(r) == pc[r] \in {"background", "done"}

\* the request passes every validation: a side, and a price when it is a limit order
ValidRequest(r) ==
    /\ side[r] \in {BUY, SELL}
    /\ \/ payload[r].order_type = "market"
       \/ payload[r].order_type = "limit" /\ payload[r].price # PriceNone

Calls(r) == SelectSeq(trace[r], LAMBDA e : e.op # "sleep")

Sleeps(r) == SelectSeq(trace[r], LAMBDA e : e.op = "sleep")

CallsOf(r, a) == SelectSeq(trace[r], LAMBDA e : e.op # "sleep" /\ e.att = a)

CreatesOf(r, a) == SelectSeq(trace[r], LAMBDA e : e.op \in CreateOps /\ e.att = a)

FetchesOf(r, a) == SelectSeq(trace[r], LAMBDA e : e.op = "fetch_order" /\ e.att = a)

AttemptsMade(r) ==
    {trace[r][i].att : i \in {j \in 1..Len(trace[r]) : trace[r][j].op # "sleep"}}

AttemptFailed(r, a) ==
    \E i \in 1..Len(trace[r]) :
        trace[r][i].op # "sleep" /\ trace[r][i].att = a /\ ~trace[r][i].ok

LastOf(s) == s[Len(s)]

PlacedBy(r) == {o \in exOrders : o.req = r}

Sinks == {"log_order", "log_order_to_gsheet", "notify_remote"}

----------------------------------------------------------------------------
(* C1: with a valid request and MAX_RETRIES >= 1, when the exchange makes
   attempts 1..k-1 fail and attempt k succeed, place_order_with_retry returns
   the result of attempt k after exactly k attempts and exactly k-1 delays,
   and the successful call of attempt k is the last exchange call made. *)
C1_ReturnsAttemptK ==
    \A r \in Sent : \A k \in 1..MAX_RETRIES :
        ( /\ ValidRequest(r)
          /\ ThreadEnded(r)
          /\ \A a \in 1..(k - 1) : AttemptFailed(r, a)
          /\ k \in AttemptsMade(r)
          /\ ~AttemptFailed(r, k) )
        => /\ outcome[r].kind = "returned"
           /\ LastOf(trace[r]).op # "sleep"
           /\ LastOf(trace[r]).att = k
           /\ LastOf(trace[r]).ok
           /\ outcome[r].order = LastOf(trace[r]).order
           /\ outcome[r].order.att = k
           /\ AttemptsMade(r) = 1..k
           /\ attempt[r] = k
           /\ Len(Sleeps(r)) = k - 1

\* fail, fail, succeed: the third attempt's order is returned after two delays
C1_Witness ==
    /\ pc[1] = "done"
    /\ ValidRequest(1)
    /\ MAX_RETRIES >= 3
    /\ AttemptFailed(1, 1) /\ AttemptFailed(1, 2) /\ ~AttemptFailed(1, 3)
    /\ outcome[1].kind = "returned"
    /\ outcome[1].order.att = 3
    /\ Len(Sleeps(1)) = 2

(* C2: with a valid request and MAX_RETRIES = N >= 1, when the exchange fails
   on every attempt, place_order_with_retry raises after exactly N attempts
   and the exception raised is the one of the N-th attempt. *)
C2_RaisesLastFailure ==
    \A r \in Sent :
        ( /\ ValidRequest(r)
          /\ MAX_RETRIES >= 1
          /\ ThreadEnded(r)
          /\ \A a \in AttemptsMade(r) : AttemptFailed(r, a) )
        => /\ outcome[r].kind = "raised"
           /\ AttemptsMade(r) = 1..MAX_RETRIES
           /\ attempt[r] = MAX_RETRIES
           /\ ~LastOf(Calls(r)).ok
           /\ LastOf(Calls(r)).att = MAX_RETRIES
           /\ outcome[r].exc = ExchangeError(MAX_RETRIES, LastOf(Calls(r)).op)

\* three attempts failed at three different calls; the third failure is raised
C2_Witness ==
    /\ pc[1] = "done"
    /\ ValidRequest(1)
    /\ MAX_RETRIES = 3
    /\ outcome[1].kind = "raised"
    /\ AttemptFailed(1, 1) /\ AttemptFailed(1, 2) /\ AttemptFailed(1, 3)
    /\ outcome[1].exc = ExchangeError(3, "fetch_order")
    /\ \E i \in 1..Len(Calls(1)) :
          Calls(1)[i].att = 1 /\ ~Calls(1)[i].ok /\ Calls(1)[i].op = "load_markets"

(* C3: a submission with order_type = 'limit' and price = None makes no call
   against the exchange and takes no retry and no retry delay. *)
C3_MissingPriceNoCalls ==
    \A r \in Sent :
        (payload[r].order_type = "limit" /\ payload[r].price = PriceNone)
        => trace[r] = <<>> /\ attempt[r] <= 1

(* C4: a submission whose order_type is neither 'market' nor 'limit' fails
   once: no retry, no retry delay and no order-placement call. *)
C4_UnsupportedTypeNotRetried ==
    \A r \in Sent :
        (payload[r].order_type \notin {"market", "limit"})
        => /\ Len(Sleeps(r)) = 0
           /\ attempt[r] <= 1
           /\ \A i \in 1..Len(trace[r]) : trace[r][i].op \notin CreateOps

\* the payload fails one of the three validations
ValidationErrorInput(p) ==
    \/ Lower(Strip(p.action)) \notin {BUY, SELL}
    \/ p.order_type \notin {"market", "limit"}
    \/ p.order_type = "limit" /\ p.price = PriceNone

(* C5: a request with a bad action, an unsupported order type or a limit
   order without price invokes no exchange operation and is answered with a
   4xx response. *)
C5_ValidationErrorsAre4xx ==
    \A r \in Sent :
        ValidationErrorInput(payload[r])
        => /\ trace[r] = <<>>
           /\ \A i \in 1..Len(responses[r]) : responses[r][i].status \in 400..499
           /\ pc[r] = "done" => Len(responses[r]) = 1

UpperChar(c) ==
    CASE c = "b" -> "B"
      [] c = "u" -> "U"
      [] c = "y" -> "Y"
      [] c = "s" -> "S"
      [] c = "e" -> "E"
      [] c = "l" -> "L"
      [] OTHER -> c

\* a is the word w in any letter case with whitespace only around it
IsWordIgnoringCaseAndMargins(a, w) ==
    \E i \in 0..Len(a) :
        /\ i + Len(w) <= Len(a)
        /\ \A k \in 1..Len(w) : a[i + k] \in {w[k], UpperChar(w[k])}
        /\ \A j \in 1..Len(a) : (j <= i \/ j > i + Len(w)) => a[j] \in Whitespace

(* C6: the webhook accepts an action exactly when, trimmed and lower-cased,
   it is 'buy' or 'sell'; any other action is answered 400 with the order
   submitter never invoked, no exchange call and no sink scheduled. *)
C6_ActionAccepted ==
    \A r \in Sent :
        IF \/ IsWordIgnoringCaseAndMargins(payload[r].action, BUY)
           \/ IsWordIgnoringCaseAndMargins(payload[r].action, SELL)
        THEN /\ side[r] \in {BUY, SELL}
             /\ IsWordIgnoringCaseAndMargins(payload[r].action, side[r])
             /\ \A i \in 1..Len(responses[r]) : responses[r][i].status # 400
             /\ pc[r] = "done" => outcome[r] # NoOutcome
        ELSE /\ responses[r] = <<Response(400, NoOrder, InvalidAction)>>
             /\ pc[r] = "done"
             /\ attempt[r] = 0
             /\ outcome[r] = NoOutcome
             /\ trace[r] = <<>>
             /\ PlacedBy(r) = {}
             /\ tasks[r] = <<>>
             /\ sinkRan[r] = {}

\* 'b uy', a word the trimming does not repair, is refused with 400
C6_Witness ==
    /\ pc[1] = "done"
    /\ payload[1].action = <<"b", " ", "u", "y">>
    /\ responses[1] = <<Response(400, NoOrder, InvalidAction)>>
    /\ trace[1] = <<>>

(* C7: in the successful attempt, a placement status of 'open' or 'partial'
   is followed by exactly one fetch_order, whose result is returned even if
   still open; any other status is returned as placed, with no fetch_order. *)
C7_OneFollowUpFetch ==
    \A r \in Sent :
        outcome[r].kind = "returned"
        => LET k == attempt[r]
               creates == CreatesOf(r, k)
               fetches == FetchesOf(r, k)
           IN /\ Len(creates) = 1
              /\ creates[1].ok
              /\ IF creates[1].order.status \in {"open", "partial"}
                 THEN /\ Len(fetches) = 1
                      /\ fetches[1].ok
                      /\ outcome[r].order = fetches[1].order
                      /\ outcome[r].order.src = "fetch"
                      /\ outcome[r].order.id = creates[1].order.id
                 ELSE /\ Len(fetches) = 0
                      /\ outcome[r].order = creates[1].order

\* a partial fill was fetched once, was open when fetched, and was returned
C7_Witness ==
    /\ pc[1] = "done"
    /\ outcome[1].kind = "returned"
    /\ CreatesOf(1, attempt[1])[1].order.status = "partial"
    /\ Len(FetchesOf(1, attempt[1])) = 1
    /\ outcome[1].order.src = "fetch"
    /\ outcome[1].order.status = "open"

(* C8: if every order-placement call either raises without placing or
   returns the order it placed, one submission places at most one order. *)
C8_AtMostOneOrder ==
    \A r \in Reqs : Cardinality(PlacedBy(r)) <= 1

(* C9: every request ends in exactly one response, and that response is the
   200 response exactly when the request placed an order at the exchange. *)
C9_ResponseTellsPlacement ==
    \A r \in Sent :
        Responded(r)
        => /\ Len(responses[r]) = 1
           /\ responses[r][1].status = 200 <=> PlacedBy(r) # {}

(* C10: after a successful request, a sink that fails keeps neither of the
   other two sinks from running and leaves the response as it was sent. *)
C10_SinkFailureIsolated ==
    \A r \in Sent :
        (pc[r] = "done" /\ outcome[r].kind = "returned")
        => /\ responses[r] = <<Response(200, outcome[r].order, NoException)>>
           /\ \A s \in sinkFailed[r] : Sinks \ {s} \subseteq sinkRan[r]

----------------------------------------------------------------------------
LowerLetters == {"b", "t", "c", "u", "s", "d"}

\* a lower-case letter and its upper-case form
CasePairs == {<<"b", "B">>, <<"t", "T">>, <<"c", "C">>,
              <<"u", "U">>, <<"s", "S">>, <<"d", "D">>}

(* C14: normalize_symbol returns an input containing '/' unchanged, and
   otherwise the input with every '_' replaced by '/' and every letter
   upper-cased, character by character. *)
C14_NormalizeSymbol ==
    \A r \in Sent :
        LET s == payload[r].symbol
            out == symbol[r]
        IN IF \E i \in 1..Len(s) : s[i] = "/"
           THEN out = s
           ELSE /\ Len(out) = Len(s)
                /\ \A i \in 1..Len(s) :
                      /\ s[i] = "_" => out[i] = "/"
                      /\ s[i] # "_" =>
                            /\ out[i] \notin LowerLetters
                            /\ out[i] = s[i] \/ <<s[i], out[i]>> \in CasePairs

\* 'btc_usdt' became 'BTC/USDT'
C14_Witness ==
    /\ pc[1] # "idle"
    /\ payload[1].symbol = <<"b", "t", "c", "_", "u", "s", "d", "t">>
    /\ symbol[1] = <<"B", "T", "C", "/", "U", "S", "D", "T">>

----------------------------------------------------------------------------
Submitting == {"for", "load_markets", "create_order", "fetch_order", "sleep"}

\* the moves of one request: received and validated, the attempts, then the
\* success branch (200, then the sinks) or the failure branch (an error response)
PcMoves ==
    {<<"idle", "for">>, <<"idle", "done">>,
     <<"for", "load_markets">>, <<"for", "await">>,
     <<"load_markets", "create_order">>, <<"load_markets", "sleep">>, <<"load_markets", "for">>,
     <<"create_order", "fetch_order">>, <<"create_order", "await">>,
     <<"create_order", "sleep">>, <<"create_order", "for">>,
     <<"fetch_order", "await">>, <<"fetch_order", "sleep">>, <<"fetch_order", "for">>,
     <<"sleep", "for">>,
     <<"await", "background">>, <<"await", "done">>,
     <<"background", "background">>, <<"background", "done">>}

SinkActive(r) ==
    \/ tasks[r] # <<>>
    \/ sinkRan[r] # {}
    \/ exists[r] # "unread"
    \/ \E i \in 1..Len(csvRows) : csvRows[i].kind = "record" /\ csvRows[i].id \in {o.id : o \in PlacedBy(r)}
    \/ \E i \in 1..Len(sheetRows) : sheetRows[i].id \in {o.id : o \in PlacedBy(r)}

C11_Inv ==
    \A r \in Reqs :
        /\ responses[r] # <<>> <=> Responded(r)
        /\ pc[r] \in Submitting => outcome[r] = NoOutcome
        /\ SinkActive(r) =>
              /\ outcome[r].kind = "returned"
              /\ responses[r] = <<Response(200, outcome[r].order, NoException)>>
        /\ (Responded(r) /\ outcome[r].kind = "raised") =>
              /\ pc[r] = "done"
              /\ responses[r] = <<Response(500, NoOrder, outcome[r].exc)>>
              /\ outcome[r].exc # NoException
              /\ ~SinkActive(r)

C11_Step ==
    \A r \in Reqs :
        /\ pc'[r] # pc[r] => <<pc[r], pc'[r]>> \in PcMoves
        /\ <<pc[r], pc'[r]>> = <<"await", "background">> => outcome[r].kind = "returned"
        /\ <<pc[r], pc'[r]>> = <<"await", "done">> => outcome[r].kind = "raised"
        /\ <<pc[r], pc'[r]>> = <<"idle", "done">> => responses'[r][1].status = 400
        /\ responses'[r] # responses[r] => responses[r] = <<>> /\ ~SinkActive(r)

(* C11: a request moves received -> validated -> submitting -> succeeded ->
   response sent -> sinks, or -> failed -> error response.  Sinks run only
   for a request whose submission succeeded and only once its 200 response
   is sent; a failed submission gets a 500 carrying the cause and runs no
   sink. *)
C11_StateMachine == []C11_Inv /\ [][C11_Step]_vars

\* a failed submission answered 500 with its cause, no sink touched
C11_Witness ==
    /\ pc[1] = "done"
    /\ outcome[1].kind = "raised"
    /\ responses[1] = <<Response(500, NoOrder, ExchangeError(MAX_RETRIES, "load_markets"))>>
    /\ sinkRan[1] = {}
    /\ Len(Calls(1)) >= 2

----------------------------------------------------------------------------
\* the operation (order_type, action) selects
ExpectedOp(p) ==
    LET buy == IsWordIgnoringCaseAndMargins(p.action, BUY)
    IN CASE p.order_type = "market" /\ buy -> "create_market_buy_order"
         [] p.order_type = "market" /\ ~buy -> "create_market_sell_order"
         [] p.order_type = "limit" /\ buy -> "create_limit_buy_order"
         [] p.order_type = "limit" /\ ~buy -> "create_limit_sell_order"
         [] OTHER -> "none"

\* attempt a got past load_markets and the dispatch, and its order call is over
ReachedPlacement(r, a) ==
    /\ ValidRequest(r)
    /\ \E i \in 1..Len(trace[r]) :
          trace[r][i].op = "load_markets" /\ trace[r][i].att = a /\ trace[r][i].ok
    /\ ~(pc[r] = "create_order" /\ attempt[r] = a)

(* C13: an attempt that reaches order placement calls exactly one of the
   four exchange operations, the one (order_type, side) selects; a market
   order never fails for a missing price and never passes a price. *)
C13_Dispatch ==
    \A r \in Sent :
        /\ \A i \in 1..Len(trace[r]) :
              trace[r][i].op \in CreateOps =>
                 /\ trace[r][i].op = ExpectedOp(payload[r])
                 /\ payload[r].order_type = "market" => trace[r][i].price = PriceNone
                 /\ payload[r].order_type = "limit" =>
                       trace[r][i].price = payload[r].price /\ trace[r][i].price # PriceNone
        /\ \A a \in AttemptsMade(r) :
              /\ Len(CreatesOf(r, a)) <= 1
              /\ ReachedPlacement(r, a) => Len(CreatesOf(r, a)) = 1
        /\ payload[r].order_type = "market" => last_exception[r].kind # "ValueError"

\* 'BUY' with order_type market and a price supplied: market-buy, no price passed
C13_Witness ==
    /\ pc[1] = "done"
    /\ payload[1].action = <<"B", "U", "Y">>
    /\ payload[1].order_type = "market"
    /\ payload[1].price # PriceNone
    /\ outcome[1].kind = "returned"
    /\ trace[1][2].op = "create_market_buy_order"
    /\ trace[1][2].price = PriceNone

(* C16: in every attempt load_markets is the first exchange call; when it
   fails the attempt makes no other call, and that attempt is one of the
   at most MAX_RETRIES attempts. *)
C16_LoadMarketsFirst ==
    \A r \in Sent :
        /\ AttemptsMade(r) \subseteq 1..MAX_RETRIES
        /\ \A a \in 1..attempt[r] : a \in AttemptsMade(r) \/ (a = attempt[r] /\ pc[r] = "load_markets")
        /\ \A a \in AttemptsMade(r) :
              LET cs == CallsOf(r, a)
              IN /\ cs[1].op = "load_markets"
                 /\ \A i \in 2..Len(cs) : cs[i].op # "load_markets"
                 /\ ~cs[1].ok => Len(cs) = 1
        /\ (ThreadEnded(r) /\ outcome[r].kind = "raised" /\ MAX_RETRIES >= 1)
              => AttemptsMade(r) = 1..MAX_RETRIES

\* every refresh failed: MAX_RETRIES attempts, no placement call at all
C16_Witness ==
    /\ pc[1] = "done"
    /\ MAX_RETRIES = 3
    /\ ValidRequest(1)
    /\ Len(Calls(1)) = 3
    /\ \A i \in 1..3 : Calls(1)[i].op = "load_markets" /\ ~Calls(1)[i].ok
    /\ outcome[1].kind = "raised"

\* attempt a ended in the except clause
EndedInExcept(r, a) ==
    \/ AttemptFailed(r, a)
    \/ a \in AttemptsMade(r) /\ ~ValidRequest(r)

(* C19: a retry delay is taken only after a failed attempt that another
   attempt follows: none before the first attempt, none after the attempt
   that returns, none after the last failed attempt; MAX_RETRIES = N failed
   attempts take exactly N-1 delays. *)
C19_DelaysBetweenAttempts ==
    \A r \in Sent :
        /\ \A i \in 1..Len(trace[r]) :
              trace[r][i].op = "sleep" =>
                 /\ i > 1
                 /\ trace[r][i - 1].op # "sleep"
                 /\ trace[r][i - 1].att = trace[r][i].att
                 /\ EndedInExcept(r, trace[r][i].att)
                 /\ trace[r][i].att < MAX_RETRIES
                 /\ i < Len(trace[r]) =>
                       /\ trace[r][i + 1].op = "load_markets"
                       /\ trace[r][i + 1].att = trace[r][i].att + 1
                 /\ i = Len(trace[r]) => pc[r] \in {"for", "load_markets"}
        /\ \A a \in AttemptsMade(r) :
              Len(SelectSeq(Sleeps(r), LAMBDA e : e.att = a)) <= 1
        /\ (ThreadEnded(r) /\ outcome[r].kind = "raised" /\ MAX_RETRIES >= 1)
              => Len(Sleeps(r)) = MAX_RETRIES - 1
        /\ (ThreadEnded(r) /\ outcome[r].kind = "returned")
              => Len(Sleeps(r)) = attempt[r] - 1

\* three failed attempts, two delays, the last event is the third failure
C19_Witness ==
    /\ pc[1] = "done"
    /\ MAX_RETRIES = 3
    /\ outcome[1].kind = "raised"
    /\ Len(Sleeps(1)) = 2
    /\ LastOf(trace[1]).op = "fetch_order"
    /\ LastOf(trace[1]).att = 3

(* C20: for every configured MAX_RETRIES, values below 1 included,
   place_order_with_retry makes at least one attempt, and an error it raises
   is the exception recorded from one of its own attempts. *)
C20_AtLeastOneAttempt ==
    \A r \in Sent :
        ThreadEnded(r)
        => /\ AttemptsMade(r) # {}
           /\ outcome[r].kind = "raised" =>
                 /\ outcome[r].exc.kind \in {"ExchangeError", "ValueError"}
                 /\ outcome[r].exc.att \in AttemptsMade(r)

----------------------------------------------------------------------------
AttemptBudget == IF MAX_RETRIES > 0 THEN MAX_RETRIES ELSE 0

C17_Bounded ==
    /\ attempt[1] <= AttemptBudget
    /\ AttemptsMade(1) \subseteq 1..AttemptBudget
    /\ Len(responses[1]) <= 1

(* C17: when every exchange call returns or raises, place_order_with_retry
   ends after at most MAX_RETRIES attempts, returning or raising, and every
   webhook request reaches exactly one response, whatever fails. *)
C17_Terminates ==
    /\ []C17_Bounded
    /\ [][responses[1] # <<>> => responses'[1] = responses[1]]_vars
    /\ (pc[1] \in Submitting) ~> ThreadEnded(1)
    /\ (pc[1] # "idle") ~> (Responded(1) /\ Len(responses[1]) = 1)

\* the whole budget was used and the request was answered once
C17_Witness ==
    /\ pc[1] = "done"
    /\ MAX_RETRIES = 3
    /\ attempt[1] = 3
    /\ AttemptsMade(1) = 1..3
    /\ outcome[1].kind = "raised"
    /\ Len(responses[1]) = 1

----------------------------------------------------------------------------
(* Concurrent requests: the event loop runs the handlers, worker threads run
   place_order_with_retry and the synchronous background tasks *)

\* MAX_RETRIES of the runs with two requests
ConcRetries == 2

\* MAX_RETRIES of the runs with two requests that follow the sinks
LogRetries == 2

\* a mutant of HoldsLoop: place_order_with_retry is called on the event loop
HoldsLoopWhileSubmitting(r) ==
    pc[r] \in {"for", "load_markets", "create_order", "fetch_order", "sleep"}

\* whether the handler of r keeps the event loop between its steps:
\* await asyncio.to_thread(...) gives the loop back while the thread runs
HoldsLoop(r) == FALSE

\* the event loop can run a step of r's handler
LoopFree(r) == \A q \in Reqs \ {r} : ~HoldsLoop(q)

ConcPayloads == [symbol : SymbolsSent, action : {<<"B", "U", "Y">>},
                 order_type : {"market"}, price : {PriceNone}]

\* a step of the handler of r, on the event loop
HandlerStep(r) ==
    /\ LoopFree(r)
    /\ \/ \E p \in ConcPayloads : Webhook(r, p)
       \/ WebhookResume(r)

\* a step of the worker thread of r
ThreadStep(r) ==
    \/ ForAttempt(r)
    \/ LoadMarkets(r)
    \/ CreateOrder(r)
    \/ FetchOrder(r)
    \/ Sleep(r)

\* a step of the background tasks of r
TaskStep(r) ==
    \/ LogOrderExists(r)
    \/ LogOrderWrite(r)
    \/ LogOrderToGsheet(r)
    \/ LoopFree(r) /\ NotifyRemote(r)

InitConc == Init /\ MAX_RETRIES = ConcRetries /\ REMOTE_NOTIFY_URL

NextConc == \E r \in Reqs : HandlerStep(r) \/ ThreadStep(r)

\* two requests up to their responses
SpecConc == InitConc /\ [][NextConc]_vars

InitLog == Init /\ MAX_RETRIES = LogRetries /\ REMOTE_NOTIFY_URL

NextLog == \E r \in Reqs : HandlerStep(r) \/ ThreadStep(r) \/ TaskStep(r)

\* two requests with their background tasks
SpecLog == InitLog /\ [][NextLog]_vars

----------------------------------------------------------------------------
(* C12: while request A is inside its retry sequence, in an exchange call or
   in a retry delay, the handler of another request B can be run by the
   event loop (B is accepted, B is answered) and B's worker thread can take
   its next step: B never waits for A. *)
C12_NotStalled ==
    \A a \in Reqs : \A b \in Reqs \ {a} :
        pc[a] \in Submitting
        => /\ pc[b] \in {"idle", "await"} => ENABLED HandlerStep(b)
           /\ pc[b] \in Submitting => ENABLED ThreadStep(b)

\* request 1 placed the first order and is still in its first retry delay;
\* request 2 placed its order after that and has its 200 response
C12_Witness ==
    /\ pc[1] = "sleep"
    /\ attempt[1] = 1
    /\ \E o \in PlacedBy(1) : o.id = 1
    /\ \E o \in PlacedBy(2) : o.id = 2
    /\ pc[2] = "background"
    /\ responses[2] # <<>>
    /\ responses[2][1].status = 200

\* the outcome the calls recorded for r alone lead to
OwnOutcome(r) ==
    IF \E a \in AttemptsMade(r) : ~AttemptFailed(r, a)
    THEN [kind |-> "returned", order |-> LastOf(trace[r]).order, exc |-> NoException]
    ELSE [kind |-> "raised", order |-> NoOrder,
          exc |-> ExchangeError(MAX_RETRIES, LastOf(Calls(r)).op)]

(* C18: with submissions running concurrently, each has its own attempt
   counter and last failure: a submission that raises has made all
   MAX_RETRIES attempts, and what it returns or raises is determined by the
   exchange results of its own attempts. *)
C18_NoCrossRequestState ==
    \A r \in Sent :
        /\ AttemptsMade(r) \subseteq 1..attempt[r]
        /\ attempt[r] <= MAX_RETRIES
        /\ last_exception[r] # NoException =>
              LET cs == Calls(r)
              IN \E i \in 1..Len(cs) :
                    /\ ~cs[i].ok
                    /\ last_exception[r] = ExchangeError(cs[i].att, cs[i].op)
                    /\ \A j \in (i + 1)..Len(cs) : cs[j].ok
        /\ ThreadEnded(r) =>
              /\ outcome[r] = OwnOutcome(r)
              /\ outcome[r].kind = "raised" => AttemptsMade(r) = 1..MAX_RETRIES
              /\ outcome[r].kind = "returned" =>
                    outcome[r].order.id \in {o.id : o \in PlacedBy(r)}

\* interleaved submissions: request 2 used its whole budget and raised its own
\* last failure, request 1 returned from its first attempt in between
C18_Witness ==
    /\ ThreadEnded(1) /\ ThreadEnded(2)
    /\ outcome[1].kind = "returned"
    /\ attempt[1] = 1
    /\ outcome[2].kind = "raised"
    /\ outcome[2].exc = ExchangeError(MAX_RETRIES, "fetch_order")
    /\ attempt[2] = MAX_RETRIES
    /\ \E o \in PlacedBy(2) : o.id < outcome[1].order.id
    /\ \E o \in PlacedBy(2) : o.id > outcome[1].order.id

\* log_order runs that wrote their record
CompletedLogRuns == {r \in Reqs : /\ "log_order" \in sinkRan[r]
                                  /\ "log_order" \notin sinkFailed[r]
                                  /\ ~Running(r, "log_order")}

(* C15: starting from an absent log file, after any number of log_order
   runs, interleaved ones included, the file holds the header exactly once,
   as its first row, followed by one record per completed run. *)
C15_HeaderOnceAndFirst ==
    /\ csvRows = <<>> => CompletedLogRuns = {}
    /\ csvRows # <<>> =>
          /\ csvRows[1] = HeaderRow
          /\ \A i \in 2..Len(csvRows) : csvRows[i].kind = "record"
          /\ Len(csvRows) = 1 + Cardinality(CompletedLogRuns)

====
